---- MODULE Spec2Model ----
(***************************************************************************)
(* wordle-rs: the guess evaluation and session state machine of            *)
(* src/src/main.rs (struct CurrentWord and its method guess), and the      *)
(* program around it: main, get_and_write_word and the word cache.         *)
(*                                                                         *)
(* A string is a sequence of characters, each character a one-character    *)
(* TLA+ string.  Rust's String::len() counts UTF-8 bytes, chars() yields   *)
(* characters: the two are kept apart (len versus Len).                    *)
(***************************************************************************)
EXTENDS Integers, Sequences, FiniteSets, TLC

(* ------------------------------ bounds -------------------------------- *)

\* longest raw input, in characters
MaxLen == 6
\* largest number of tries a session is constructed with
MaxTries == 2
\* rows the history may hold before the model stops accepting guesses, once
\* the tries the session was constructed with are used up
MaxRows == 3
\* the last day of the model's calendar, the first being day 0
MaxDay == 2

(* ------------------------- program constants -------------------------- *)

\* the word length hard-coded in guess (guess.len() < 5, guess.len() > 5)
WordLen == 5
\* the tries main constructs its CurrentWord with
MainTries == 5
\* the value tries: u32 wraps to when 1 is subtracted from 0.  The program's
\* value is 2^32 - 1; the model checker's integers end at 2^31 - 1, which
\* stands for it: the model only compares tries with 0 and with the small
\* numbers of tries and rows, and subtracts 1, which agree on both values.
U32Max == 2147483647

ALPHABET ==
    {"a", "b", "c", "d", "e", "f", "g", "h", "i", "j", "k", "l", "m",
     "n", "o", "p", "q", "r", "s", "t", "u", "v", "w", "x", "y", "z"}

(* --------------------------- string helpers --------------------------- *)

\* all strings over the characters cs of n characters
RECURSIVE StringsOfLen(_, _)
StringsOfLen(cs, n) ==
    IF n = 0 THEN {<<>>}
    ELSE {Append(s, c) : s \in StringsOfLen(cs, n - 1), c \in cs}

\* all strings over cs of lo..hi characters
StringsOver(cs, lo, hi) == UNION {StringsOfLen(cs, n) : n \in lo..hi}

\* UTF-8 width of a character: the ASCII characters take one byte, e-acute two
Utf8Len(ch) == IF ch = "é" THEN 2 ELSE 1

\* String::len(): the number of bytes of the UTF-8 encoding
RECURSIVE len(_)
len(s) == IF s = <<>> THEN 0 ELSE Utf8Len(Head(s)) + len(Tail(s))

\* contains as str::starts_with(char): only the first character is looked at
contains_first_only(s, ch) == Len(s) > 0 /\ s[1] = ch

\* str::contains(char)
contains(s, ch) == \E j \in 1..Len(s) : s[j] = ch

(* ------------------------- the model's inputs ------------------------- *)

\* an ASCII character that is no letter, and a character of two bytes
Digit == "1"
EAcute == "é"

\* two word lists read from the dictionary file
Double == { <<"a", "a", "b", "b", "b">>, <<"a", "b", "a", "a", "c">> }
Fable == { <<"f", "a", "b", "l", "e">>, <<"c", "a", "b", "l", "e">> }

\* the sessions: a secret word and the word list it is played with.  The
\* first two answers are words of their list, the third is not.  Every
\* answer has WordLen characters, as the daily word has: guess unwraps
\* correct_answer.chars().nth(i) at each position of a validated guess.
Sessions ==
    { [answer |-> <<"a", "a", "b", "b", "b">>, dictionary |-> Double],
      [answer |-> <<"f", "a", "b", "l", "e">>, dictionary |-> Fable],
      [answer |-> <<"a", "a", "a", "a", "a">>, dictionary |-> Double] }

\* the words over two letters: five lowercase letters each
Words == StringsOfLen({"a", "b"}, WordLen)

\* the raw inputs a caller hands to guess: the answers, the words of the
\* lists, the words over two letters, and every string of up to MaxLen
\* characters over a letter and the two kinds of non-letter
Inputs ==
    {s.answer : s \in Sessions}
      \cup UNION {s.dictionary : s \in Sessions}
      \cup Words
      \cup StringsOver({"a", Digit, EAcute}, 0, MaxLen)

(* ------------------------------- state -------------------------------- *)

VARIABLES
    correct_answer,   \* CurrentWord.correct_answer
    char_guesses,     \* CurrentWord.char_guesses: the rows, oldest first
    tries,            \* CurrentWord.tries: u32
    dictionary,       \* the HashSet<String> handed to every guess call
    max_tries,        \* the tries argument CurrentWord::new was called with
    call,             \* the argument of the pending guess call, or NoCall
    outcome,          \* what the guess call just made returned, else NoOutcome
    outcomes,         \* what each accepted guess returned, oldest first
    pc,               \* where the process running main is
    day,              \* args.day
    prefetch_wordles, \* args.prefetch_wordles
    update_dictionary, \* args.update_dictionary
    current_day,      \* current_day of the prefetch loop
    cache,            \* the word cache files of cache_dir: day -> content
    response,         \* what the remote service answered to the last
                      \* get_and_write_word, NotContacted if it was not asked
    resolved,         \* what the last get_and_write_word returned
    line,             \* the line last read from stdin
    shown,            \* what display_word last printed
    exit_code         \* the exit code of the process, Running before

\* the CurrentWord and the values passed to and from guess
sessionVars == <<correct_answer, char_guesses, tries, dictionary, max_tries,
                 call, outcome, outcomes>>
\* the process running main and its files
mainVars == <<pc, day, prefetch_wordles, update_dictionary, current_day,
              cache, response, resolved, line, shown, exit_code>>

vars == <<sessionVars, mainVars>>

NoCall == "NoCall"
NoOutcome == "NoOutcome"
\* no CurrentWord is constructed
NoAnswer == <<"NoAnswer">>
\* no process is running main: guess is called by a caller of its own
Library == "Library"
\* get_and_write_word has not returned in this run
Unresolved == <<"Unresolved">>
\* get_and_write_word returned None
NoWord == <<"None">>
\* there is no cache file for the day
NoFile == <<"NoFile">>
\* what the remote service answered: WordleResponse::Success with its
\* solution, WordleResponse::Failure, or a body that is neither (Err); and
\* NotContacted when no request was made
NotContacted == [kind |-> "NotContacted"]
Success(solution) == [kind |-> "Success", solution |-> solution]
Failure == [kind |-> "Failure"]
Err == [kind |-> "Err"]
NoLine == <<"NoLine">>
\* stdin is at its end
EndOfInput == <<"EndOfInput">>
Nothing == <<"Nothing">>
Running == "Running"
\* the process ended by std::process::exit(0), by exit(1), by a panic
Exit0 == "exit(0)"
Exit1 == "exit(1)"
Panicked == "panicked"
\* get_and_write_word did not return: it panicked
NoReturn == <<"panic">>

\* the days of the calendar
Days == 0..MaxDay
\* the call did not return: the thread panicked
Panic == "Panic"

InvalidGuessKind ==
    {"WordTooLong", "WordTooShort", "WordContainsNonLetters", "WordNotInDictionary"}
GuessOutcome == InvalidGuessKind \cup {"Continue", "Win", "NoTriesLeft"}
CharGuessKind == {"NotInWord", "WrongPlace", "Correct"}

CharGuess(ch, kind) == [ch |-> ch, kind |-> kind]

(* ----------------------------- CurrentWord ---------------------------- *)

\* CurrentWord::new(correct_answer, tries)
new(answer, n) ==
    /\ correct_answer = answer
    /\ tries = n
    /\ char_guesses = <<>>

Init ==
    /\ \E s \in Sessions, n \in 0..MaxTries :
          /\ new(s.answer, n)
          /\ max_tries = n
          /\ dictionary = s.dictionary
    /\ call = NoCall
    /\ outcome = NoOutcome
    /\ outcomes = <<>>
    /\ pc = Library
    /\ day = 0
    /\ prefetch_wordles = FALSE
    /\ update_dictionary = FALSE
    /\ current_day = 0
    /\ cache = [d \in Days |-> NoFile]
    /\ response = NotContacted
    /\ resolved = Unresolved
    /\ line = NoLine
    /\ shown = Nothing
    /\ exit_code = Running

\* Validate with the letter test before the two length tests
ValidateLettersFirst(g, dict) ==
    IF \E i \in 1..Len(g) : g[i] \notin ALPHABET THEN "WordContainsNonLetters"
    ELSE IF len(g) < WordLen THEN "WordTooShort"
    ELSE IF len(g) > WordLen THEN "WordTooLong"
    ELSE IF g \notin dict THEN "WordNotInDictionary"
    ELSE "Valid"

\* the validation chain of guess: the first failing check, or "Valid"
Validate(g, dict) ==
    IF len(g) < WordLen THEN "WordTooShort"
    ELSE IF len(g) > WordLen THEN "WordTooLong"
    ELSE IF \E i \in 1..Len(g) : g[i] \notin ALPHABET THEN "WordContainsNonLetters"
    ELSE IF g \notin dict THEN "WordNotInDictionary"
    ELSE "Valid"

\* Classify with the two tests in the other order: a character of the answer
\* is WrongPlace before its place is looked at
ClassifyContainsFirst(answer, i, ch) ==
    IF contains(answer, ch) THEN CharGuess(ch, "WrongPlace")
    ELSE IF answer[i] = ch THEN CharGuess(ch, "Correct")
    ELSE CharGuess(ch, "NotInWord")

\* the closure mapped over guess.chars().enumerate(): one CharGuess
Classify(answer, i, ch) ==
    IF answer[i] = ch THEN CharGuess(ch, "Correct")
    ELSE IF contains(answer, ch) THEN CharGuess(ch, "WrongPlace")
    ELSE CharGuess(ch, "NotInWord")

\* the row pushed for a validated guess
Evaluate(answer, g) == [i \in 1..Len(g) |-> Classify(answer, i, g[i])]

\* current_guess without the rev(): the characters of the oldest row
current_guess_oldest(rows) ==
    LET first == rows[1] IN [i \in 1..Len(first) |-> first[i].ch]

\* CurrentWord::current_guess: the characters of the newest row
current_guess(rows) ==
    LET last == rows[Len(rows)] IN [i \in 1..Len(last) |-> last[i].ch]

\* Decide with the tries test before the win test
DecideTriesFirst(rows, answer, t) ==
    IF t = 0 THEN "NoTriesLeft"
    ELSE IF current_guess(rows) = answer THEN "Win"
    ELSE "Continue"

\* Decide giving up one try early
DecideOneTryEarly(rows, answer, t) ==
    IF current_guess(rows) = answer THEN "Win"
    ELSE IF t <= 1 THEN "NoTriesLeft"
    ELSE "Continue"

\* the outcome chosen after the row is pushed and tries is decremented
Decide(rows, answer, t) ==
    IF current_guess(rows) = answer THEN "Win"
    ELSE IF t = 0 THEN "NoTriesLeft"
    ELSE "Continue"

\* the caller binds the argument of its next guess call; after a panic there
\* is no caller left
Call ==
    /\ call = NoCall
    /\ outcome # Panic
    /\ call' \in Inputs
    /\ outcome' = NoOutcome
    /\ UNCHANGED <<correct_answer, char_guesses, tries, dictionary, max_tries,
                   outcomes>>
    /\ UNCHANGED mainVars

\* Reject that counts the invalid guess as a try
RejectConsumesTry(reason) ==
    /\ outcome' = reason
    /\ tries' = IF tries > 0 THEN tries - 1 ELSE tries
    /\ UNCHANGED <<char_guesses, outcomes>>

\* guess, an input that fails validation: the reason is returned
Reject(reason) ==
    /\ outcome' = reason
    /\ UNCHANGED <<char_guesses, tries, outcomes>>

\* guess, a validated input: push the row, self.tries -= 1, decide.
\* With tries = 0 the subtraction overflows: a build with overflow checks
\* panics there (the row is already pushed), a build without wraps around.
Accept(g) ==
    LET rows == Append(char_guesses, Evaluate(correct_answer, g)) IN
    /\ Len(char_guesses) < MaxRows \/ Len(char_guesses) < max_tries
    /\ char_guesses' = rows
    /\ \/ /\ tries > 0
          /\ tries' = tries - 1
          /\ outcome' = Decide(rows, correct_answer, tries - 1)
       \/ /\ tries = 0
          /\ tries' = U32Max
          /\ outcome' = Decide(rows, correct_answer, U32Max)
       \/ /\ tries = 0
          /\ tries' = tries
          /\ outcome' = Panic
    /\ outcomes' = Append(outcomes, outcome')

\* CurrentWord::guess(guess, dictionary)
guess ==
    /\ call # NoCall
    /\ call' = NoCall
    /\ LET reason == Validate(call, dictionary) IN
          IF reason # "Valid" THEN Reject(reason) ELSE Accept(call)
    /\ UNCHANGED <<correct_answer, dictionary, max_tries>>
    /\ UNCHANGED mainVars

Next ==
    \/ Call
    \/ guess

Spec == Init /\ [][Next]_vars

(* ------------------- main: the strings it handles -------------------- *)

\* the ASCII letters, capital and small, in the same order
UPPER ==
    <<"A", "B", "C", "D", "E", "F", "G", "H", "I", "J", "K", "L", "M",
      "N", "O", "P", "Q", "R", "S", "T", "U", "V", "W", "X", "Y", "Z">>
LOWER ==
    <<"a", "b", "c", "d", "e", "f", "g", "h", "i", "j", "k", "l", "m",
      "n", "o", "p", "q", "r", "s", "t", "u", "v", "w", "x", "y", "z">>

\* the characters trim and trim_end remove
White_Space == {" ", "\t", "\r", "\n"}

\* char::to_ascii_lowercase: an ASCII capital becomes its small letter, every
\* other character (a capital outside ASCII too) is kept
char_to_ascii_lowercase(ch) ==
    IF \E i \in 1..Len(UPPER) : UPPER[i] = ch
    THEN LOWER[CHOOSE i \in 1..Len(UPPER) : UPPER[i] = ch]
    ELSE ch

\* to_ascii_lowercase that folds nothing
keep_case(s) == s

\* str::to_ascii_lowercase
RECURSIVE to_ascii_lowercase(_)
to_ascii_lowercase(s) ==
    IF s = <<>> THEN <<>>
    ELSE <<char_to_ascii_lowercase(Head(s))>> \o to_ascii_lowercase(Tail(s))

\* str::trim_start
RECURSIVE trim_start(_)
trim_start(s) ==
    IF s # <<>> /\ Head(s) \in White_Space THEN trim_start(Tail(s)) ELSE s

\* str::trim_end
RECURSIVE trim_end(_)
trim_end(s) ==
    IF s # <<>> /\ s[Len(s)] \in White_Space
    THEN trim_end(SubSeq(s, 1, Len(s) - 1))
    ELSE s

\* str::trim
trim(s) == trim_end(trim_start(s))

\* BufRead::read_line on the content of a file: the first line, its newline
\* included, or the whole content when it has none
read_line(content) ==
    IF \E i \in 1..Len(content) : content[i] = "\n"
    THEN SubSeq(content, 1,
                CHOOSE i \in 1..Len(content) :
                    /\ content[i] = "\n"
                    /\ \A j \in 1..(i - 1) : content[j] # "\n")
    ELSE content

\* the word with its first letter, or every letter, as an ASCII capital
Capital(ch) ==
    IF \E i \in 1..Len(LOWER) : LOWER[i] = ch
    THEN UPPER[CHOOSE i \in 1..Len(LOWER) : LOWER[i] = ch]
    ELSE ch
Capitalised(w) == IF w = <<>> THEN <<>> ELSE <<Capital(Head(w))>> \o Tail(w)
RECURSIVE Capitals(_)
Capitals(w) ==
    IF w = <<>> THEN <<>> ELSE <<Capital(Head(w))>> \o Capitals(Tail(w))

\* the words the remote service publishes as solutions: five small letters
Solutions == Fable

\* the word list the program loads from its dictionary file
WordList == Fable \cup { <<"t", "a", "b", "l", "e">> }

\* the lines a player types (stdin().lines() has removed the newline): the
\* words of the list in small letters, capitalised and in capitals, bare and
\* with white space before, after and around them, and lines that are no
\* word of the list
Lines ==
    UNION { { u, <<" ">> \o u, u \o <<"\t">>, <<" ", " ">> \o u \o <<" ">> } :
            u \in UNION { {w, Capitalised(w), Capitals(w)} : w \in WordList } }
      \cup { <<>>,
             <<" ", " ">>,
             <<"a", "b">>,
             <<"f", "a", "b", "1", "e">>,
             <<"f", "a", " ", "l", "e">>,
             <<"F", "A", "B", "L", "É">>,
             <<"f", "a", "b", "l", "e", "s">>,
             <<"A", "A", "B", "B", "B">> }

(* ------------------------- main: the program ------------------------- *)

\* the background colour display_word prints a CharGuess on
Colour(kind) ==
    IF kind = "Correct" THEN "on_green"
    ELSE IF kind = "WrongPlace" THEN "on_yellow"
    ELSE "on_bright_black"

\* one printed row: each character on its colour
PrintedRow(row) ==
    [j \in 1..Len(row) |-> [ch |-> row[j].ch, on |-> Colour(row[j].kind)]]

\* display_word printing the newest row first
display_word_newest_first(rows) ==
    IF rows = <<>> THEN << <<"_", "_", "_", "_", "_">> >>
    ELSE [i \in 1..(Len(rows) + 1) |->
            IF i <= Len(rows) THEN PrintedRow(rows[Len(rows) + 1 - i])
            ELSE <<>>]

\* CurrentWord::display_word: the lines it prints, "_____" for an empty
\* history, else one line per row, oldest first, and an empty line
display_word(rows) ==
    IF rows = <<>> THEN << <<"_", "_", "_", "_", "_">> >>
    ELSE [i \in 1..(Len(rows) + 1) |->
            IF i <= Len(rows) THEN PrintedRow(rows[i]) ELSE <<>>]

\* the remote service has a solution for the days before the last one of the
\* calendar, and none yet for the last
Published(d) == d < MaxDay

\* get_and_write_word that never looks at the cache files: it asks the remote
\* service each time
get_and_write_word_uncached(d) ==
    \/ /\ Published(d)
       /\ \E w \in Solutions :
             /\ response' = Success(w)
             /\ cache' = [cache EXCEPT ![d] = w]
             /\ resolved' = w
    \/ /\ response' = Failure
       /\ resolved' = NoWord
       /\ cache' = cache
    \/ /\ response' = Err
       /\ resolved' = NoReturn
       /\ cache' = cache

\* get_and_write_word(cache_dir, day, client): resolved' is the word of the
\* Some it returns, NoWord for None, NoReturn when it panics.  With a cache file
\* for the day the word is the first line of the file, trimmed at its end,
\* and the remote service is not asked; without one the service answers
\* Success (the solution is written to a new cache file), Failure or
\* something that is neither (the panic of line 124).
get_and_write_word(d) ==
    IF cache[d] # NoFile
    THEN /\ response' = NotContacted
         /\ resolved' = trim_end(read_line(cache[d]))
         /\ cache' = cache
    ELSE \/ /\ Published(d)
            /\ \E w \in Solutions :
                  /\ response' = Success(w)
                  /\ cache' = [cache EXCEPT ![d] = w]
                  /\ resolved' = w
         \/ /\ response' = Failure
            /\ resolved' = NoWord
            /\ cache' = cache
         \/ /\ response' = Err
            /\ resolved' = NoReturn
            /\ cache' = cache

\* the state the program is first run in: no cache file, the word list on disk
InitMain ==
    /\ correct_answer = NoAnswer
    /\ char_guesses = <<>>
    /\ tries = 0
    /\ max_tries = 0
    /\ dictionary = WordList
    /\ call = NoCall
    /\ outcome = NoOutcome
    /\ outcomes = <<>>
    /\ pc = "start"
    /\ day = 0
    /\ prefetch_wordles = FALSE
    /\ update_dictionary = FALSE
    /\ current_day = 0
    /\ cache = [d \in Days |-> NoFile]
    /\ response = NotContacted
    /\ resolved = Unresolved
    /\ line = NoLine
    /\ shown = Nothing
    /\ exit_code = Running

\* main, from the start of a run of the program to its first
\* get_and_write_word: the arguments are parsed; with --update-dictionary the
\* word list is written and the process exits (lines 258-261), else the word
\* list is loaded and the run goes on to the prefetch loop or to the game.
\* A run starts when no other is going on; the cache files stay.
main ==
    /\ pc \in {"start", "exited", "panicked"}
    /\ \E d \in Days, p \in BOOLEAN, u \in BOOLEAN :
          /\ day' = d
          /\ prefetch_wordles' = p
          /\ update_dictionary' = u
          /\ current_day' = d
          /\ pc' = IF u THEN "exited" ELSE IF p THEN "prefetch" ELSE "resolve"
          /\ exit_code' = IF u THEN Exit0 ELSE Running
    /\ correct_answer' = NoAnswer
    /\ char_guesses' = <<>>
    /\ tries' = 0
    /\ max_tries' = 0
    /\ call' = NoCall
    /\ outcome' = NoOutcome
    /\ outcomes' = <<>>
    /\ response' = NotContacted
    /\ resolved' = Unresolved
    /\ line' = NoLine
    /\ shown' = Nothing
    /\ UNCHANGED <<dictionary, cache>>

\* main, one turn of the prefetch loop (lines 281-289) and, when the loop
\* breaks, the rest of the run (lines 290-304): exit(0)
prefetch ==
    /\ pc = "prefetch"
    /\ get_and_write_word(current_day)
    /\ IF resolved' = NoReturn
       THEN /\ pc' = "panicked"
            /\ exit_code' = Panicked
            /\ current_day' = current_day
       ELSE IF resolved' # NoWord
       THEN /\ pc' = "prefetch"
            /\ exit_code' = exit_code
            /\ current_day' = current_day + 1
       ELSE /\ pc' = "exited"
            /\ exit_code' = Exit0
            /\ current_day' = current_day
    /\ UNCHANGED sessionVars
    /\ UNCHANGED <<day, prefetch_wordles, update_dictionary, line, shown>>

\* the closure of unwrap_or_else at line 306 that goes on to a game with a
\* word of the list
NoWordPlaysAnyway ==
    /\ pc' = "loop"
    /\ exit_code' = exit_code
    /\ correct_answer' = CHOOSE w \in dictionary : TRUE
    /\ tries' = MainTries
    /\ max_tries' = MainTries
    /\ char_guesses' = <<>>

\* the closure of unwrap_or_else at line 306: the message and exit(1)
NoWordToday ==
    /\ pc' = "exited"
    /\ exit_code' = Exit1
    /\ UNCHANGED <<correct_answer, tries, max_tries, char_guesses>>

\* main, lines 306-312: the word of the day is resolved and the CurrentWord
\* is constructed with it and 5 tries
resolve ==
    /\ pc = "resolve"
    /\ get_and_write_word(day)
    /\ IF resolved' = NoReturn
       THEN /\ pc' = "panicked"
            /\ exit_code' = Panicked
            /\ UNCHANGED <<correct_answer, tries, max_tries, char_guesses>>
       ELSE IF resolved' = NoWord
       THEN NoWordToday
       ELSE /\ pc' = "loop"
            /\ exit_code' = exit_code
            /\ correct_answer' = resolved'
            /\ tries' = MainTries
            /\ max_tries' = MainTries
            /\ char_guesses' = <<>>
    /\ UNCHANGED <<dictionary, call, outcome, outcomes>>
    /\ UNCHANGED <<day, prefetch_wordles, update_dictionary, current_day,
                   line, shown>>

\* main, lines 315-326: the history is printed and the next line of stdin
\* is read, folded to small letters and trimmed; at the end of stdin
\* next() is None and its unwrap panics
read_guess ==
    /\ pc = "loop"
    /\ call = NoCall
    /\ outcome = NoOutcome
    /\ shown' = display_word(char_guesses)
    /\ \/ /\ line' \in Lines
          /\ call' = trim(to_ascii_lowercase(line'))
          /\ pc' = pc
          /\ exit_code' = exit_code
       \/ /\ line' = EndOfInput
          /\ call' = NoCall
          /\ pc' = "panicked"
          /\ exit_code' = Panicked
    /\ UNCHANGED <<correct_answer, char_guesses, tries, dictionary, max_tries,
                   outcome, outcomes>>
    /\ UNCHANGED <<day, prefetch_wordles, update_dictionary, current_day,
                   cache, response, resolved>>

\* the match of line 328 going round the loop after NoTriesLeft too
match_outcome_loops_after_loss ==
    /\ pc = "loop"
    /\ call = NoCall
    /\ outcome # NoOutcome
    /\ outcome # Panic
    /\ IF outcome = "Win"
       THEN /\ shown' = display_word(char_guesses)
            /\ pc' = "exited"
            /\ exit_code' = Exit0
       ELSE UNCHANGED <<shown, pc, exit_code>>
    /\ outcome' = NoOutcome
    /\ line' = NoLine
    /\ UNCHANGED <<correct_answer, char_guesses, tries, dictionary, max_tries,
                   call, outcomes>>
    /\ UNCHANGED <<day, prefetch_wordles, update_dictionary, current_day,
                   cache, response, resolved>>

\* main, lines 328-350: the match on what guess returned.  Win and
\* NoTriesLeft print the history and exit(0); the others go round the loop.
match_outcome ==
    /\ pc = "loop"
    /\ call = NoCall
    /\ outcome # NoOutcome
    /\ outcome # Panic
    /\ IF outcome \in {"Win", "NoTriesLeft"}
       THEN /\ shown' = display_word(char_guesses)
            /\ pc' = "exited"
            /\ exit_code' = Exit0
       ELSE UNCHANGED <<shown, pc, exit_code>>
    /\ outcome' = NoOutcome
    /\ line' = NoLine
    /\ UNCHANGED <<correct_answer, char_guesses, tries, dictionary, max_tries,
                   call, outcomes>>
    /\ UNCHANGED <<day, prefetch_wordles, update_dictionary, current_day,
                   cache, response, resolved>>

NextMain ==
    \/ main
    \/ prefetch
    \/ resolve
    \/ read_guess
    \/ guess
    \/ match_outcome

SpecMain == InitMain /\ [][NextMain]_vars

(* --------------------- the vocabulary of the claims ------------------- *)

\* the characters of a row: the guess it was produced from
RowWord(row) == [i \in 1..Len(row) |-> row[i].ch]
AllCorrect(row) == \A i \in 1..Len(row) : row[i].kind = "Correct"
\* the characters that occur in a string
CharsOf(s) == {s[j] : j \in 1..Len(s)}

\* the session states of the specification, read off what guess returned
Won == \E k \in 1..Len(outcomes) : outcomes[k] = "Win"
Lost == \E k \in 1..Len(outcomes) : outcomes[k] = "NoTriesLeft"
Active == tries > 0 /\ ~Won

\* a guess call is being made in this step
Calling == call # NoCall

\* the first failing check when the length of a guess is its number of
\* characters
FirstFailingCheck(g, dict) ==
    IF Len(g) < WordLen THEN "WordTooShort"
    ELSE IF Len(g) > WordLen THEN "WordTooLong"
    ELSE IF CharsOf(g) \ ALPHABET # {} THEN "WordContainsNonLetters"
    ELSE IF g \notin dict THEN "WordNotInDictionary"
    ELSE "Valid"

(* -------------------------------- C1 ---------------------------------- *)

\* C1: in every reachable state the number of rows of the history plus the
\* remaining tries equals max_tries.
C1_RowsPlusTriesIsMaxTries == tries = max_tries - Len(char_guesses)

(* -------------------------------- C2 ---------------------------------- *)

\* C2: a guess call that returns InvalidGuess(reason) leaves tries and the
\* history exactly as they were.
C2_InvalidChangesNothing ==
    [][ outcome' \in InvalidGuessKind
          => (tries' = tries /\ char_guesses' = char_guesses /\ outcomes' = outcomes)
      ]_vars

\* an invalid guess was answered in a session that has rows and tries left
C2_Witness ==
    /\ outcome \in InvalidGuessKind
    /\ char_guesses # <<>>
    /\ tries > 0 /\ tries < max_tries

(* -------------------------------- C3 ---------------------------------- *)

\* C3: guess reports the first failing check in the order too short, too
\* long, non-letters, not in dictionary, the length being the number of
\* characters of the guess; a guess that passes all four is not rejected.
C3_FirstFailingCheckByCharacters ==
    [][ (Calling /\ outcome' # Panic)
          => LET expected == FirstFailingCheck(call, dictionary) IN
             IF expected = "Valid" THEN outcome' \notin InvalidGuessKind
             ELSE outcome' = expected
      ]_vars

(* -------------------------------- C4 ---------------------------------- *)

\* C4 as stated: in an Active session a guess equal to the answer returns
\* Win, and every CharGuess of the row appended for it is Correct.
C4_AnswerWins ==
    [][ (Calling /\ Active /\ call = correct_answer)
          => /\ outcome' = "Win"
             /\ Len(char_guesses') = Len(char_guesses) + 1
             /\ AllCorrect(char_guesses'[Len(char_guesses')])
      ]_vars

\* C4 as amended: in an Active session a guess equal to the answer that is
\* a word of the dictionary returns Win, and every CharGuess of the row
\* appended for it is Correct.
C4_AnswerInDictionaryWins ==
    [][ (Calling /\ Active /\ call = correct_answer /\ call \in dictionary)
          => /\ outcome' = "Win"
             /\ Len(char_guesses') = Len(char_guesses) + 1
             /\ AllCorrect(char_guesses'[Len(char_guesses')])
      ]_vars

\* the answer was guessed after a wrong guess, with a try left over
C4_Witness ==
    /\ outcome = "Win"
    /\ Len(char_guesses) = 2
    /\ RowWord(char_guesses[1]) # correct_answer
    /\ RowWord(char_guesses[2]) = correct_answer
    /\ AllCorrect(char_guesses[2])
    /\ correct_answer \in dictionary

(* -------------------------------- C5 ---------------------------------- *)

\* C5: a guess call on a session that is already Won or Lost fails fast: it
\* appends no row, leaves tries alone and returns no outcome.
C5_TerminalSessionFailsFast ==
    [][ (Calling /\ (Won \/ Lost))
          => /\ outcome' = Panic
             /\ char_guesses' = char_guesses
             /\ tries' = tries
      ]_vars

(* -------------------------------- C6 ---------------------------------- *)

\* C6: when the first max_tries accepted guesses of a session all differ
\* from the answer, the last of them returns NoTriesLeft and each earlier
\* one returns Continue.
C6_LostAfterMaxTriesWrongGuesses ==
    \A k \in 1..Len(outcomes) :
        (k <= max_tries /\ \A j \in 1..k : RowWord(char_guesses[j]) # correct_answer)
          => outcomes[k] = (IF k = max_tries THEN "NoTriesLeft" ELSE "Continue")

\* max_tries wrong guesses were made, at least two
C6_Witness ==
    /\ max_tries >= 2
    /\ Len(outcomes) = max_tries
    /\ \A j \in 1..max_tries : RowWord(char_guesses[j]) # correct_answer
    /\ outcome = "NoTriesLeft"

(* -------------------------------- C7 ---------------------------------- *)

\* C7: for every accepted guess that guess returned an outcome for, the
\* outcome is Win if and only if every CharGuess of its row is Correct.
C7_WinIffAllCorrect ==
    \A k \in 1..Len(outcomes) :
        outcomes[k] # Panic
          => (outcomes[k] = "Win" <=> AllCorrect(char_guesses[k]))

\* a guess that did not win, then one that did
C7_Witness ==
    /\ Len(outcomes) >= 2
    /\ outcomes[1] \in {"Continue", "NoTriesLeft"}
    /\ ~AllCorrect(char_guesses[1])
    /\ outcomes[2] = "Win"
    /\ AllCorrect(char_guesses[2])

(* -------------------------------- C8 ---------------------------------- *)

\* C8: with exactly one try left, a valid guess equal to the answer returns
\* Win, not NoTriesLeft, although the decrement has brought tries to 0.
C8_WinOnLastTry ==
    [][ (Calling /\ tries = 1 /\ call = correct_answer
           /\ Validate(call, dictionary) = "Valid")
          => (outcome' = "Win" /\ tries' = 0)
      ]_vars

\* the last of at least two tries won
C8_Witness ==
    /\ outcome = "Win"
    /\ tries = 0
    /\ max_tries >= 2
    /\ Len(char_guesses) = max_tries
    /\ RowWord(char_guesses[Len(char_guesses)]) = correct_answer

(* -------------------------------- C9 ---------------------------------- *)

\* C9: every row has the five characters of a word of the dictionary, and
\* position i is Correct when the character equals answer[i], otherwise
\* WrongPlace when the character occurs in the answer, however often it
\* occurs there or was matched already, otherwise NotInWord.
C9_RowClassification ==
    \A k \in 1..Len(char_guesses) :
        LET row == char_guesses[k] IN
        /\ Len(row) = WordLen
        /\ RowWord(row) \in dictionary
        /\ \A i \in 1..WordLen :
              /\ row[i].kind = "Correct" <=> row[i].ch = correct_answer[i]
              /\ row[i].kind = "WrongPlace"
                    <=> (row[i].ch # correct_answer[i]
                         /\ row[i].ch \in CharsOf(correct_answer))
              /\ row[i].kind = "NotInWord" <=> row[i].ch \notin CharsOf(correct_answer)
        /\ (correct_answer = <<"f", "a", "b", "l", "e">>
              /\ RowWord(row) = <<"c", "a", "b", "l", "e">>)
             => [i \in 1..WordLen |-> row[i].kind]
                  = <<"NotInWord", "Correct", "Correct", "Correct", "Correct">>

\* the number of positions of row whose character is ch and marked kind
Marked(row, ch, kinds) ==
    Cardinality({i \in 1..Len(row) : row[i].ch = ch /\ row[i].kind \in kinds})

\* a row marks a letter Correct or WrongPlace more often than the answer has
\* it, and marks another letter NotInWord
C9_Witness ==
    \E k \in 1..Len(char_guesses) :
        /\ \E ch \in ALPHABET :
              Marked(char_guesses[k], ch, {"Correct", "WrongPlace"})
                > Cardinality({j \in 1..WordLen : correct_answer[j] = ch})
        /\ \E ch \in ALPHABET : Marked(char_guesses[k], ch, {"NotInWord"}) > 0

(* -------------------------------- C10 --------------------------------- *)

\* C10: the remaining-tries counter never increases and no subtraction
\* takes it below zero.
C10_TriesNeverIncreaseNorUnderflow ==
    [][ tries' <= tries /\ outcome' # Panic ]_vars

(* -------------------------------- C11 --------------------------------- *)

C14_AcceptedGuessAppendsAndDecrements ==
    [][ (Calling /\ Validate(call, dictionary) = "Valid")
          => /\ Len(char_guesses') = Len(char_guesses) + 1
             /\ SubSeq(char_guesses', 1, Len(char_guesses)) = char_guesses
             /\ tries' = tries - 1
             /\ correct_answer' = correct_answer
             /\ dictionary' = dictionary
      ]_vars

(* -------------------------------- C12 --------------------------------- *)

\* what display_word printed shows the rows in their order: the placeholder
\* line for no row, else line i spells row i and an empty line ends it
Renders(out, rows) ==
    IF rows = <<>> THEN out = << <<"_", "_", "_", "_", "_">> >>
    ELSE /\ Len(out) = Len(rows) + 1
         /\ \A i \in 1..Len(rows) :
               [j \in 1..Len(out[i]) |-> out[i][j].ch] = RowWord(rows[i])
         /\ out[Len(out)] = <<>>

\* C12: in a game the history has one row per accepted guess, in the order
\* of submission: a guess that is accepted appends one row of 5 CharGuess
\* values spelling the guess, a rejected guess and every other step of the
\* game leave the rows as they are, and whenever display_word prints, it
\* prints exactly these rows in this order.
C12_HistoryIsTheAcceptedGuessesInOrder ==
    /\ [](pc = "loop" => Len(char_guesses) = Len(outcomes))
    /\ [][ pc = "loop" =>
             /\ SubSeq(char_guesses', 1, Len(char_guesses)) = char_guesses
             /\ IF Calling /\ outcome' \notin InvalidGuessKind
                THEN /\ Len(char_guesses') = Len(char_guesses) + 1
                     /\ Len(char_guesses'[Len(char_guesses')]) = WordLen
                     /\ RowWord(char_guesses'[Len(char_guesses')]) = call
                ELSE char_guesses' = char_guesses
             /\ (~Calling /\ outcome \in {NoOutcome, "Win", "NoTriesLeft"})
                   => Renders(shown', char_guesses)
         ]_vars

\* a game of three accepted guesses, three different words, was shown at
\* its end
C12_Witness ==
    /\ pc = "exited"
    /\ Len(char_guesses) = 3
    /\ RowWord(char_guesses[1]) = <<"c", "a", "b", "l", "e">>
    /\ RowWord(char_guesses[2]) = <<"t", "a", "b", "l", "e">>
    /\ RowWord(char_guesses[3]) = <<"f", "a", "b", "l", "e">>
    /\ Len(shown) = 4

(* -------------------------------- C13 --------------------------------- *)

\* the date the last get_and_write_word of the run was called with
ResolvedDay == IF prefetch_wordles THEN current_day ELSE day

\* C13: when the remote service answered Failure (there was no cache file
\* for the date), the run has ended without a CurrentWord constructed and
\* without a line read or a guess evaluated; the run for a game has reported
\* it and exited with code 1.
C13_NoWordNoSession ==
    response = Failure =>
        /\ resolved = NoWord
        /\ cache[ResolvedDay] = NoFile
        /\ pc = "exited"
        /\ exit_code = (IF prefetch_wordles THEN Exit0 ELSE Exit1)
        /\ correct_answer = NoAnswer
        /\ char_guesses = <<>>
        /\ line = NoLine
        /\ call = NoCall
        /\ outcome = NoOutcome
        /\ outcomes = <<>>
        /\ shown = Nothing

\* a run for a game of day 1 got Failure and exited with 1, the word of
\* day 0 being cached
C13_Witness ==
    /\ response = Failure
    /\ ~prefetch_wordles
    /\ day = 1
    /\ cache[0] # NoFile
    /\ pc = "exited"
    /\ exit_code = Exit1

(* -------------------------------- C15 --------------------------------- *)

\* the accepted guesses of the game that returned Win or NoTriesLeft
TerminalOutcomes ==
    {k \in 1..Len(outcomes) : outcomes[k] \in {"Win", "NoTriesLeft"}}

\* C15: in a game played by main no more than 5 guesses are accepted and no
\* more than one of them returns Win or NoTriesLeft; once one has, the run
\* reads no further line and calls guess no more: it leaves the loop.
C15_LoopStopsAtTerminalOutcome ==
    /\ [](/\ Len(char_guesses) <= MainTries
          /\ Len(outcomes) <= MainTries
          /\ Cardinality(TerminalOutcomes) <= 1)
    /\ [][ TerminalOutcomes # {} =>
             /\ line' = line \/ line' = NoLine
             /\ call' = NoCall
             /\ outcomes' = outcomes \/ outcomes' = <<>>
             /\ pc' # "loop"
         ]_vars

\* a game was lost with its fifth accepted guess and the run has exited
C15_Witness ==
    /\ pc = "exited"
    /\ Len(char_guesses) = MainTries
    /\ outcomes[MainTries] = "NoTriesLeft"
    /\ tries = 0

(* -------------------------------- C16 --------------------------------- *)

\* the run is about to call get_and_write_word
Resolving == pc \in {"prefetch", "resolve"}
\* the date it calls it with
ResolvingDay == IF pc = "prefetch" THEN current_day ELSE day

\* C16: the word of a date is cached.  A resolution of a date that has a
\* cache entry returns the word of the entry and does not contact the remote
\* service; one of a date without an entry contacts it, and on Success
\* returns the solution and makes it the entry of the date, on Failure
\* returns no word and makes no entry (so the next resolution of the date
\* contacts the service again).  An entry, once made, is never changed or
\* removed, and only a resolution makes one.
C16_WordCachedByDate ==
    [][ /\ \A e \in Days : cache[e] # NoFile => cache'[e] = cache[e]
        /\ ~Resolving => cache' = cache
        /\ Resolving =>
             LET d == ResolvingDay IN
             /\ \A e \in Days \ {d} : cache'[e] = cache[e]
             /\ IF cache[d] # NoFile
                THEN /\ response' = NotContacted
                     /\ resolved' = cache[d]
                ELSE \/ /\ response' \in {Success(w) : w \in Solutions}
                        /\ resolved' = response'.solution
                        /\ cache'[d] = response'.solution
                     \/ /\ response' = Failure
                        /\ resolved' = NoWord
                        /\ cache'[d] = NoFile
                     \/ /\ response' = Err
                        /\ cache'[d] = NoFile
      ]_vars

\* a game was started with the word taken from the cache entry of its day,
\* the remote service not contacted
C16_Witness ==
    /\ pc = "loop"
    /\ response = NotContacted
    /\ cache[day] # NoFile
    /\ correct_answer = cache[day]

(* -------------------------------- C17 --------------------------------- *)

\* the line l is the word w with some of its letters as ASCII capitals and
\* with white space before and after it
DiffersByCaseAndPadding(l, w) ==
    \E a \in 0..Len(l) :
        /\ a + Len(w) <= Len(l)
        /\ \A i \in 1..a : l[i] \in White_Space
        /\ \A i \in (a + Len(w) + 1)..Len(l) : l[i] \in White_Space
        /\ \A i \in 1..Len(w) : l[a + i] = w[i] \/ l[a + i] = Capital(w[i])

\* C17: a line read by main that differs from a word of the dictionary only
\* by the ASCII case of its letters and by white space around it is not
\* rejected: guess accepts it, pushes the row of the word in small letters
\* evaluated against the answer, and takes one try.
C17_FoldedLineAccepted ==
    [][ (pc = "loop" /\ Calling) =>
          \A w \in dictionary :
              DiffersByCaseAndPadding(line, w) =>
                  /\ outcome' \in {"Continue", "Win", "NoTriesLeft"}
                  /\ char_guesses' =
                         Append(char_guesses, Evaluate(correct_answer, w))
                  /\ RowWord(char_guesses'[Len(char_guesses')]) = w
                  /\ tries' = tries - 1
      ]_vars

\* the line "  CABLE " was accepted as cable, the first guess of a game
C17_Witness ==
    /\ pc = "loop"
    /\ line = <<" ", " ", "C", "A", "B", "L", "E", " ">>
    /\ outcome = "Continue"
    /\ Len(char_guesses) = 1
    /\ RowWord(char_guesses[1]) = <<"c", "a", "b", "l", "e">>
    /\ tries = MainTries - 1

(* -------------------------------- C18 --------------------------------- *)

\* what C18 says of the state of a run in prefetch mode: no game is started;
\* every date from the requested day up to the date being resolved has a
\* cache entry; and when the run has exited it has stopped at a date for
\* which there is no word.
PrefetchStops(mode) ==
    mode =>
        /\ pc \notin {"resolve", "loop"}
        /\ correct_answer = NoAnswer
        /\ line = NoLine
        /\ outcomes = <<>>
        /\ day <= current_day
        /\ \A e \in day..(current_day - 1) : cache[e] # NoFile
        /\ pc = "exited" =>
              /\ resolved = NoWord
              /\ cache[current_day] = NoFile
              /\ exit_code = Exit0

\* what C18 says of a turn of the prefetch loop: the date resolved is the
\* current one, a success advances it by exactly one day and goes on, no
\* word stops the run there
PrefetchAdvances ==
    pc = "prefetch" =>
        /\ resolved' \notin {NoWord, NoReturn} =>
              /\ cache'[current_day] = resolved'
              /\ current_day' = current_day + 1
              /\ pc' = "prefetch"
        /\ resolved' = NoWord =>
              /\ current_day' = current_day
              /\ cache'[current_day] = NoFile
              /\ pc' = "exited"

\* C18: a run with --prefetch-wordles resolves consecutive dates from the
\* requested day on, one day further after each success, stops at the first
\* date without a word, has then a cache entry for every date from the start
\* day up to the stopping date, and exits without starting a game.
C18_PrefetchResolvesConsecutiveDates ==
    /\ [] PrefetchStops(prefetch_wordles)
    /\ [][PrefetchAdvances]_vars

\* C18 for the runs with --prefetch-wordles and without --update-dictionary:
\* the same statement, of the runs that reach the prefetch loop
C18_PrefetchAloneResolvesConsecutiveDates ==
    /\ [] PrefetchStops(prefetch_wordles /\ ~update_dictionary)
    /\ [][PrefetchAdvances]_vars

\* a prefetch from day 0 has cached two days and stopped at the third
C18_Witness ==
    /\ prefetch_wordles
    /\ ~update_dictionary
    /\ pc = "exited"
    /\ day = 0
    /\ current_day = 2
    /\ cache[0] # NoFile
    /\ cache[1] # NoFile

====
